---- MODULE Spec2Model ----
(***************************************************************************)
(* Model of the GDPC interface layer of minecraft-mcp-gdpc:                *)
(*   src/src/gdpc_interface/utils.py            (conversion, containment)  *)
(*   src/src/gdpc_interface/world_operations.py (get_build_area)           *)
(*   src/src/gdpc_interface/block_operations.py (set_block, ...)           *)
(*   src/src/gdpc_interface/structure_operations.py (place_structure)      *)
(*   src/src/gdpc_interface/connection.py       (ConnectionManager)        *)
(*                                                                         *)
(* Three specifications share the variables:                               *)
(*   Spec      the callers: a build area is fetched, writes are forwarded  *)
(*   SpecGeom  the containment predicates applied to drawn inputs          *)
(*   SpecConv  vec3i_to_tuple applied to drawn inputs                      *)
(***************************************************************************)
EXTENDS Integers, Sequences, FiniteSets

VARIABLES
    build_area,   \* the Box held as build area, or None
    arg,          \* the argument object of the current call
    op,           \* the function or method last called ("none" before a call)
    ret,          \* what that call returned or raised
    issued,       \* the connection calls made by the current call, in order
    probed,       \* the points build_area.contains was called on by the current call
    first,        \* what the first evaluation on the current inputs returned
    evals,        \* how many times the current inputs have been evaluated
    env,          \* which Supabase settings the environment holds
    client,       \* SupabaseManager.client: the client instance, or None
    admin_client, \* SupabaseManager.admin_client: the admin client instance, or None
    created,      \* how many client instances create_client has made
    is_active,    \* template_versions.is_active of each version of one template
    pc            \* the database step each activate_template_version call is at

managerVars == <<env, client, admin_client, created, is_active, pc>>
vars == <<build_area, arg, op, ret, issued, probed, first, evals, env, client,
          admin_client, created, is_active, pc>>

(***************************************************************************)
(* Bounds of the model.                                                    *)
(***************************************************************************)
MaxCoord == 2     \* coordinates range over -1..MaxCoord
MaxSize == 2      \* box sizes range over -1..MaxSize
MaxLen == 4       \* lists and tuples handed to vec3i_to_tuple have 0..MaxLen items
MaxBlocks == 4    \* block lists handed to set_blocks_in_box have 0..MaxBlocks items
MaxEvals == 2     \* a predicate is evaluated at most MaxEvals times on the same inputs

Coord == (-1)..MaxCoord
Size == (-1)..MaxSize
Axes == 1..3

(***************************************************************************)
(* Python values.                                                          *)
(***************************************************************************)
None == [kind |-> "None"]

\* no SupabaseManager at work
ManagerUnused ==
    /\ env = None
    /\ client = None
    /\ admin_client = None
    /\ created = 0
    /\ is_active = <<>>
    /\ pc = <<>>
Returned(v) == [kind |-> "return", val |-> v]
Raised(e) == [kind |-> "raise", exc |-> e]
NoRet == [kind |-> "pending"]
PyStr(x) == [kind |-> "str", val |-> x]

\* gdpc.vector_tools.ivec3: three integers
ivec3(x, y, z) == <<x, y, z>>
VecAdd(a, b) == <<a[1] + b[1], a[2] + b[2], a[3] + b[3]>>
VecSub(a, b) == <<a[1] - b[1], a[2] - b[2], a[3] - b[3]>>

\* gdpc.vector_tools.Box(offset, size): no check is made on size
Box(offset, size) == [kind |-> "Box", offset |-> offset, size |-> size]

\* Box.volume
Volume(box) == box.size[1] * box.size[2] * box.size[3]

\* Box.contains with the upper bound taken inclusive
ContainsUpperInclusive(box, point) ==
    \A a \in Axes : box.offset[a] <= point[a] /\ point[a] <= box.offset[a] + box.size[a]

\* Box.contains(point): the point is within [offset, offset + size)
Contains(box, point) ==
    \A a \in Axes : box.offset[a] <= point[a] /\ point[a] < box.offset[a] + box.size[a]

(***************************************************************************)
(* utils.py: vec3i_to_tuple                                                *)
(***************************************************************************)
\* A component of a vector-like input, and what Python's int() makes of it.
\* A float is held in tenths (81 is 8.1); int() truncates it toward zero.
PyValue(t, v) == [t |-> t, v |-> v]
Trunc(tenths) == IF tenths >= 0 THEN tenths \div 10 ELSE -((-tenths) \div 10)

PyInt(c) ==
    CASE c.t = "int" -> Returned(c.v)
      [] c.t = "float" -> Returned(Trunc(c.v))
      [] c.t = "numstr" -> Returned(c.v)
      [] c.t = "inf" -> Raised("OverflowError")
      [] c.t = "nan" -> Raised("ValueError")
      [] c.t = "str" -> Raised("ValueError")
      [] c.t = "NoneType" -> Raised("TypeError")

\* return int(a), int(b), int(c): the first conversion that raises ends it
IntTuple(a, b, c) ==
    LET ia == PyInt(a)
        ib == PyInt(b)
        ic == PyInt(c)
    IN  IF ia.kind = "raise" THEN ia
        ELSE IF ib.kind = "raise" THEN ib
        ELSE IF ic.kind = "raise" THEN ic
        ELSE Returned(<<ia.val, ib.val, ic.val>>)

\* hasattr(vec, 'x') and hasattr(vec, 'y') and hasattr(vec, 'z')
HasXYZ(vec) == vec.kind = "object"

\* isinstance(vec, (list, tuple)) and len(vec) == 3
IsTriple(vec) == vec.kind \in {"list", "tuple"} /\ Len(vec.items) = 3

\* the body of the try block
Vec3iTry(vec) ==
    IF HasXYZ(vec) THEN IntTuple(vec.items[1], vec.items[2], vec.items[3])
    ELSE IF IsTriple(vec) THEN IntTuple(vec.items[1], vec.items[2], vec.items[3])
    ELSE Raised("TypeError")

\* except (ValueError, TypeError): raise TypeError(...) from e
vec3i_to_tuple(vec) ==
    LET r == Vec3iTry(vec)
    IN  IF r.kind = "raise" /\ r.exc \in {"ValueError", "TypeError"}
        THEN Raised("TypeError")
        ELSE r

\* an ivec3 seen as a vector-like object with x, y and z
AsObject(v) ==
    [kind |-> "object",
     items |-> <<PyValue("int", v[1]), PyValue("int", v[2]), PyValue("int", v[3])>>]

\* box_to_coords: the start and the exclusive end, each through vec3i_to_tuple
box_to_coords(box) ==
    LET start == vec3i_to_tuple(AsObject(box.offset))
        end_vec == VecAdd(box.offset, box.size)
        end == vec3i_to_tuple(AsObject(end_vec))
    IN  IF start.kind = "raise" THEN start
        ELSE IF end.kind = "raise" THEN end
        ELSE Returned(<<start.val, end.val>>)

(***************************************************************************)
(* utils.py: check_build_area, check_box_in_build_area.                    *)
(* Python hands objects over by reference, so the outcome of a call is     *)
(* what it returns together with the arguments as the call leaves them     *)
(* and the points it called build_area.contains on, in order.              *)
(***************************************************************************)
Outcome(r, a, area, pts) == [ret |-> r, arg |-> a, build_area |-> area, probed |-> pts]

check_build_area(pos, area) ==
    LET t == vec3i_to_tuple(pos)
    IN  IF t.kind = "raise" THEN Outcome(t, pos, area, <<>>)
        ELSE IF area.kind # "Box" THEN Outcome(Raised("AttributeError"), pos, area, <<>>)
        ELSE LET point == ivec3(t.val[1], t.val[2], t.val[3])
             IN  Outcome(Returned(Contains(area, point)), pos, area, <<point>>)

\* check_box_in_build_area testing the exclusive end corner offset + size
check_box_end_exclusive(box, area) ==
    LET start_corner == box.offset
        end_corner == VecAdd(box.offset, box.size)
    IN  IF area.kind # "Box" THEN Outcome(Raised("AttributeError"), box, area, <<>>)
        ELSE IF ~Contains(area, start_corner)
        THEN Outcome(Returned(FALSE), box, area, <<start_corner>>)
        ELSE Outcome(Returned(Contains(area, end_corner)), box, area,
                     <<start_corner, end_corner>>)

\* check_box_in_build_area testing the last block of the box only
check_box_end_only(box, area) ==
    LET end_corner_inclusive == VecSub(VecAdd(box.offset, box.size), ivec3(1, 1, 1))
    IN  IF area.kind # "Box" THEN Outcome(Raised("AttributeError"), box, area, <<>>)
        ELSE Outcome(Returned(Contains(area, end_corner_inclusive)), box, area,
                     <<end_corner_inclusive>>)

\* check_box_in_build_area computing the end corner in place (end = box.offset; end += ...)
check_box_in_place(box, area) ==
    LET start_corner == box.offset
        end_corner_inclusive == VecSub(VecAdd(box.offset, box.size), ivec3(1, 1, 1))
        moved == [box EXCEPT !.offset = end_corner_inclusive]
    IN  IF area.kind # "Box" THEN Outcome(Raised("AttributeError"), box, area, <<>>)
        ELSE IF ~Contains(area, start_corner)
        THEN Outcome(Returned(FALSE), box, area, <<start_corner>>)
        ELSE Outcome(Returned(Contains(area, end_corner_inclusive)), moved, area,
                     <<start_corner, end_corner_inclusive>>)

check_box_in_build_area(box, area) ==
    LET start_corner == box.offset
        end_corner_inclusive == VecSub(VecAdd(box.offset, box.size), ivec3(1, 1, 1))
    IN  IF area.kind # "Box" THEN Outcome(Raised("AttributeError"), box, area, <<>>)
        ELSE IF ~Contains(area, start_corner)
        THEN Outcome(Returned(FALSE), box, area, <<start_corner>>)
        ELSE Outcome(Returned(Contains(area, end_corner_inclusive)), box, area,
                     <<start_corner, end_corner_inclusive>>)

(***************************************************************************)
(* Inputs.                                                                 *)
(***************************************************************************)
Points == {ivec3(x, y, z) : x \in Coord, y \in Coord, z \in Coord}
Extents == {ivec3(x, y, z) : x \in Size, y \in Size, z \in Size}
Boxes == {Box(o, s) : o \in Points, s \in Extents}

\* a position handed over as a tuple of ints or as an object with x, y, z
\* components: ints, floats (in tenths), a numeric and a non-numeric string,
\* float('inf'), float('nan'), None
Comps == {PyValue("int", 1), PyValue("int", -2), PyValue("float", 81),
          PyValue("float", -15), PyValue("numstr", 7), PyValue("str", 0),
          PyValue("inf", 0), PyValue("nan", 0), PyValue("NoneType", 0)}

Seqs(n) == [1..n -> Comps]
IntItems(p) == <<PyValue("int", p[1]), PyValue("int", p[2]), PyValue("int", p[3])>>
PosArgs == {[kind |-> k, items |-> IntItems(p)] : k \in {"tuple", "object"}, p \in Points}
PosOf(a) == ivec3(a.items[1].v, a.items[2].v, a.items[3].v)

\* build areas: per axis an <<offset, size>> pair
Spans == {<<0, 2>>, <<1, 1>>, <<0, 0>>}
Regions == {Box(ivec3(x[1], y[1], z[1]), ivec3(x[2], y[2], z[2])) :
               x \in Spans, y \in Spans, z \in Spans}

(***************************************************************************)
(* SpecGeom: the containment predicates on drawn inputs.  Each is called   *)
(* on the objects the state holds, up to MaxEvals times.                   *)
(***************************************************************************)
InitGeom ==
    /\ build_area \in Regions
    /\ arg \in PosArgs \cup Boxes
    /\ op = "none"
    /\ ret = NoRet
    /\ issued = <<>>
    /\ probed = <<>>
    /\ first = NoRet
    /\ evals = 0
    /\ ManagerUnused

Apply(name, o) ==
    /\ op' = name
    /\ ret' = o.ret
    /\ arg' = o.arg
    /\ build_area' = o.build_area
    /\ probed' = o.probed
    /\ first' = IF evals = 0 THEN o.ret ELSE first
    /\ evals' = evals + 1
    /\ UNCHANGED <<issued, managerVars>>

CheckBuildArea ==
    /\ evals < MaxEvals
    /\ arg.kind \in {"tuple", "object"}
    /\ Apply("check_build_area", check_build_area(arg, build_area))

CheckBoxInBuildArea ==
    /\ evals < MaxEvals
    /\ arg.kind = "Box"
    /\ Apply("check_box_in_build_area", check_box_in_build_area(arg, build_area))

\* the other functions of utils.py, called on the same objects in between
Other(name, r) ==
    /\ op # name
    /\ op' = name
    /\ ret' = r
    /\ UNCHANGED <<build_area, arg, issued, probed, first, evals, managerVars>>

Vec3iToTupleOfPos ==
    /\ arg.kind \in {"tuple", "object"}
    /\ Other("vec3i_to_tuple", vec3i_to_tuple(arg))

BoxToCoords ==
    /\ arg.kind = "Box"
    /\ Other("box_to_coords", box_to_coords(arg))

NextGeom == CheckBuildArea \/ CheckBoxInBuildArea \/ Vec3iToTupleOfPos \/ BoxToCoords

SpecGeom == InitGeom /\ [][NextGeom]_vars

(***************************************************************************)
(* connection.py: ConnectionManager.  The attributes __init__ binds to the *)
(* gdpc interface functions; any other attribute access raises             *)
(* AttributeError.  A bound function returns or raises.                    *)
(***************************************************************************)
ConnAttrs == {"get_version", "get_build_area", "get_players", "get_blocks",
              "place_blocks", "run_command"}
ConnResults == {"ok", "RequestConnectionError", "Exception"}

\* the call self.get_version(), how it ended and what it handed back
GetVersionCall(conn, version) ==
    [call |-> "get_version", result |-> conn, response |-> version]
Versions == {"1.20.2", "1.19.4"}

\* the call self.conn.place_blocks(x1, y1, z1, x2, y2, z2, block_list, ...)
\* and how it ended
PlaceBlocksCall(start, end, block_list, conn) ==
    [call |-> "place_blocks", start |-> start, end |-> end, blocks |-> block_list,
     result |-> conn]

\* the call self.conn.get_blocks(box), how it ended and what it handed back
GetBlocksCall(box, conn, resp) ==
    [call |-> "get_blocks", start |-> box.offset, end |-> VecAdd(box.offset, box.size),
     blocks |-> resp, result |-> conn]

(***************************************************************************)
(* world_operations.py: WorldOperations.get_build_area                     *)
(***************************************************************************)
\* what self.conn.get_build_area() hands back: a dict of the six bounds
\* (per axis a <<from, to - from>> pair), an empty dict, or None
ResponseSpans == Spans \cup {<<2, -1>>}
Responses ==
    {[kind |-> "dict", xFrom |-> x[1], yFrom |-> y[1], zFrom |-> z[1],
      xTo |-> x[1] + x[2], yTo |-> y[1] + y[2], zTo |-> z[1] + z[2]] :
        x \in ResponseSpans, y \in ResponseSpans, z \in ResponseSpans}
    \cup {[kind |-> "empty"], None}

\* the call self.conn.get_build_area(), how it ended and what it handed back
GetBuildAreaCall(conn, resp) ==
    [call |-> "get_build_area", result |-> conn, response |-> resp]

\* get_build_area taking the 'to' corner as inclusive: size = to - from + 1
get_build_area_inclusive(conn, build_area_dict) ==
    IF conn # "ok" THEN None
    ELSE IF build_area_dict.kind # "dict" THEN None
    ELSE LET offset == ivec3(build_area_dict.xFrom, build_area_dict.yFrom,
                             build_area_dict.zFrom)
             size == ivec3(build_area_dict.xTo - build_area_dict.xFrom + 1,
                           build_area_dict.yTo - build_area_dict.yFrom + 1,
                           build_area_dict.zTo - build_area_dict.zFrom + 1)
         IN  Box(offset, size)

get_build_area(conn, build_area_dict) ==
    IF conn # "ok" THEN None
    ELSE IF build_area_dict.kind # "dict" THEN None
    ELSE LET offset == ivec3(build_area_dict.xFrom, build_area_dict.yFrom,
                             build_area_dict.zFrom)
             size == ivec3(build_area_dict.xTo - build_area_dict.xFrom,
                           build_area_dict.yTo - build_area_dict.yFrom,
                           build_area_dict.zTo - build_area_dict.zFrom)
         IN  Box(offset, size)

(***************************************************************************)
(* block_operations.py: BlockOperations.get_block, set_block,               *)
(* get_blocks_in_box, set_blocks_in_box.  Each yields the value returned   *)
(* (or the exception raised) and the connection calls made.                *)
(***************************************************************************)
Done(v, calls) == [ret |-> Returned(v), issued |-> calls]

\* try: ... return v / except RequestConnectionError only: any other
\* exception of the connection call reaches the caller
CaughtConnectionErrorOnly(conn, v, on_error, calls) ==
    IF conn = "ok" THEN Done(v, calls)
    ELSE IF conn = "RequestConnectionError" THEN Done(on_error, calls)
    ELSE [ret |-> Raised(conn), issued |-> calls]

\* try: ... return v / except RequestConnectionError: return on_error
\* / except Exception: return on_error
Caught(conn, v, on_error, calls) ==
    IF conn = "ok" THEN Done(v, calls)
    ELSE IF conn = "RequestConnectionError" THEN Done(on_error, calls)
    ELSE Done(on_error, calls)

\* what self.conn.get_blocks hands back: a list of block strings, or None
BlockList(q) == [kind |-> "list", val |-> q]
GotBlocks == {BlockList(<<>>), BlockList(<<"minecraft:stone">>),
              BlockList(<<"minecraft:air", "minecraft:stone">>), None}

get_block(pos, conn, resp) ==
    LET box == Box(pos, ivec3(1, 1, 1))
        call == GetBlocksCall(box, conn, resp)
    IN  IF resp.kind = "list" /\ Len(resp.val) > 0
        THEN Caught(conn, PyStr(resp.val[1]), None, <<call>>)
        ELSE Caught(conn, None, None, <<call>>)

\* len(blocks) in the debug message raises TypeError on None, inside the try
get_blocks_in_box(box, conn, resp) ==
    LET call == GetBlocksCall(box, conn, resp)
    IN  IF resp.kind = "list"
        THEN Caught(conn, resp, None, <<call>>)
        ELSE Caught(conn, None, None, <<call>>)

set_block(pos, block, conn) ==
    LET start == ivec3(pos[1], pos[2], pos[3])
        end == VecAdd(start, ivec3(1, 1, 1))
    IN  Caught(conn, TRUE, FALSE, <<PlaceBlocksCall(start, end, <<block>>, conn)>>)

\* blocks: a str, a list of block strings, or something else
ListOf(n) == [i \in 1..n |-> IF i % 2 = 1 THEN "minecraft:dirt" ELSE "minecraft:grass_block"]
BlockArgs == {[kind |-> "str", val |-> <<"minecraft:glass">>], [kind |-> "other", val |-> <<>>]}
                 \cup {[kind |-> "list", val |-> ListOf(n)] : n \in 0..MaxBlocks}

\* [blocks] * volume
Repeat(block, volume) == [i \in 1..(IF volume > 0 THEN volume ELSE 0) |-> block]

\* set_blocks_in_box without the comparison of the list length with the volume
set_blocks_unchecked(box, blocks, conn) ==
    LET start == box.offset
        end == VecAdd(start, box.size)
    IN  IF blocks.kind = "str"
        THEN Caught(conn, TRUE, FALSE,
                    <<PlaceBlocksCall(start, end, Repeat(blocks.val[1], Volume(box)), conn)>>)
        ELSE IF blocks.kind = "list"
        THEN Caught(conn, TRUE, FALSE, <<PlaceBlocksCall(start, end, blocks.val, conn)>>)
        ELSE Done(FALSE, <<>>)

\* set_blocks_in_box sending the inclusive end offset + size - 1
set_blocks_end_inclusive(box, blocks, conn) ==
    LET start == box.offset
        end == VecSub(VecAdd(start, box.size), ivec3(1, 1, 1))
    IN  IF blocks.kind = "str"
        THEN Caught(conn, TRUE, FALSE,
                    <<PlaceBlocksCall(start, end, Repeat(blocks.val[1], Volume(box)), conn)>>)
        ELSE IF blocks.kind = "list"
        THEN IF Len(blocks.val) # Volume(box)
             THEN Done(FALSE, <<>>)
             ELSE Caught(conn, TRUE, FALSE,
                         <<PlaceBlocksCall(start, end, blocks.val, conn)>>)
        ELSE Done(FALSE, <<>>)

set_blocks_in_box(box, blocks, conn) ==
    LET start == box.offset
        end == VecAdd(start, box.size)
    IN  IF blocks.kind = "str"
        THEN Caught(conn, TRUE, FALSE,
                    <<PlaceBlocksCall(start, end, Repeat(blocks.val[1], Volume(box)), conn)>>)
        ELSE IF blocks.kind = "list"
        THEN IF Len(blocks.val) # Volume(box)
             THEN Done(FALSE, <<>>)
             ELSE Caught(conn, TRUE, FALSE,
                         <<PlaceBlocksCall(start, end, blocks.val, conn)>>)
        ELSE Done(FALSE, <<>>)

(***************************************************************************)
(* connection.py: ConnectionManager.test_connection, get_server_version    *)
(***************************************************************************)
\* test_connection with `except Exception` answering True
test_connection_lenient(conn, version) ==
    IF conn = "ok" THEN Done(TRUE, <<GetVersionCall(conn, version)>>)
    ELSE IF conn = "RequestConnectionError"
    THEN Done(FALSE, <<GetVersionCall(conn, version)>>)
    ELSE Done(TRUE, <<GetVersionCall(conn, version)>>)

test_connection(conn, version) ==
    Caught(conn, TRUE, FALSE, <<GetVersionCall(conn, version)>>)

get_server_version(conn, version) ==
    Caught(conn, PyStr(version), None, <<GetVersionCall(conn, version)>>)

(***************************************************************************)
(* structure_operations.py: StructureOperations.place_structure            *)
(***************************************************************************)
place_structure(pos, conn) ==
    IF "place_structure" \notin ConnAttrs
    THEN Done(FALSE, <<>>)       \* AttributeError, caught by except Exception
    ELSE Caught(conn, TRUE, FALSE,
                <<[call |-> "place_structure", start |-> pos, end |-> pos,
                   blocks |-> <<>>, result |-> conn]>>)

(***************************************************************************)
(* world_operations.py: WorldOperations.get_players, get_player_position.  *)
(***************************************************************************)
\* the call self.conn.get_players(), how it ended and what it handed back
GetPlayersCall(conn, players) ==
    [call |-> "get_players", result |-> conn, response |-> players]

get_players(conn, players) ==
    Caught(conn, players, None, <<GetPlayersCall(conn, players)>>)

\* players[player_name].get("position")
PositionOf(data) == IF data.has_position THEN data.position ELSE None

\* no try block: an exception of int() leaves get_player_position
get_player_position(player_name, conn, response) ==
    LET got == get_players(conn, response)
        players == got.ret.val
    IN  IF players.kind = "dict" /\ players.names # {} /\ player_name \in players.names
        THEN LET pos_list == PositionOf(players.data)
             IN  IF /\ pos_list.kind = "list"
                    /\ Len(pos_list.items) > 0
                    /\ Len(pos_list.items) = 3
                 THEN LET t == IntTuple(pos_list.items[1], pos_list.items[2],
                                        pos_list.items[3])
                      IN  IF t.kind = "raise"
                          THEN [ret |-> t, issued |-> got.issued]
                          ELSE Done(ivec3(t.val[1], t.val[2], t.val[3]), got.issued)
                 ELSE Done(None, got.issued)
        ELSE Done(None, got.issued)

(***************************************************************************)
(* Spec: the callers.  A call is made from the idle state (op = "none"),   *)
(* the state after it holds its argument, its result and the connection    *)
(* calls it made; Return goes back to idle.                                *)
(***************************************************************************)
WriteOffsets == {ivec3(x, y, z) : x \in {0, MaxCoord}, y \in {0, MaxCoord}, z \in {0, MaxCoord}}
WriteExtents == {ivec3(x, y, z) : x \in 0..MaxSize, y \in 0..MaxSize, z \in 0..MaxSize}
WriteBoxes == {Box(o, s) : o \in WriteOffsets, s \in WriteExtents}

\* what the server reports about the players: nothing, no player, or the
\* player Alice with or without a position of 0..MaxLen components
PlayerNames == {"Alice", "Bob"}
PositionComps == {PyValue("int", 1), PyValue("float", -15), PyValue("str", 0),
                  PyValue("NoneType", 0)}
PlayerData ==
    {[has_position |-> FALSE, position |-> None],
     [has_position |-> TRUE, position |-> None]}
    \cup {[has_position |-> TRUE, position |-> [kind |-> "list", items |-> q]] :
            q \in UNION {[1..n -> PositionComps] : n \in 0..MaxLen}}
PlayersResponses ==
    {None, [kind |-> "dict", names |-> {}, data |-> [has_position |-> FALSE, position |-> None]]}
    \cup {[kind |-> "dict", names |-> {"Alice"}, data |-> d] : d \in PlayerData}

Init ==
    /\ build_area = None
    /\ arg = None
    /\ op = "none"
    /\ ret = NoRet
    /\ issued = <<>>
    /\ probed = <<>>
    /\ first = NoRet
    /\ evals = 0
    /\ ManagerUnused

Call(name, a, d) ==
    /\ op' = name
    /\ arg' = a
    /\ ret' = d.ret
    /\ issued' = d.issued
    /\ UNCHANGED <<probed, first, evals, managerVars>>

GetBuildArea ==
    /\ op = "none"
    /\ \E conn \in ConnResults, resp \in Responses :
           /\ Call("get_build_area", resp,
                   Done(get_build_area(conn, resp), <<GetBuildAreaCall(conn, resp)>>))
           /\ build_area' = get_build_area(conn, resp)

SetBlock ==
    /\ op = "none"
    /\ \E pos \in Points, conn \in ConnResults :
           /\ Call("set_block", [kind |-> "pos", pos |-> pos],
                   set_block(pos, "minecraft:stone", conn))
           /\ UNCHANGED build_area

SetBlocksInBox ==
    /\ op = "none"
    /\ \E box \in WriteBoxes, blocks \in BlockArgs, conn \in ConnResults :
           /\ Call("set_blocks_in_box", [kind |-> "box", box |-> box, blocks |-> blocks],
                   set_blocks_in_box(box, blocks, conn))
           /\ UNCHANGED build_area

PlaceStructure ==
    /\ op = "none"
    /\ \E pos \in Points, conn \in ConnResults :
           /\ Call("place_structure", [kind |-> "pos", pos |-> pos], place_structure(pos, conn))
           /\ UNCHANGED build_area

GetBlock ==
    /\ op = "none"
    /\ \E pos \in Points, conn \in ConnResults, resp \in GotBlocks :
           /\ Call("get_block", [kind |-> "pos", pos |-> pos], get_block(pos, conn, resp))
           /\ UNCHANGED build_area

GetBlocksInBox ==
    /\ op = "none"
    /\ \E box \in WriteBoxes, conn \in ConnResults, resp \in GotBlocks :
           /\ Call("get_blocks_in_box", [kind |-> "box", box |-> box, blocks |-> None],
                   get_blocks_in_box(box, conn, resp))
           /\ UNCHANGED build_area

TestConnection ==
    /\ op = "none"
    /\ \E conn \in ConnResults, version \in Versions :
           /\ Call("test_connection", None, test_connection(conn, version))
           /\ UNCHANGED build_area

GetServerVersion ==
    /\ op = "none"
    /\ \E conn \in ConnResults, version \in Versions :
           /\ Call("get_server_version", None, get_server_version(conn, version))
           /\ UNCHANGED build_area

GetPlayerPosition ==
    /\ op = "none"
    /\ \E player_name \in PlayerNames, conn \in ConnResults, players \in PlayersResponses :
           /\ Call("get_player_position",
                   [kind |-> "player", name |-> player_name, conn |-> conn,
                    players |-> players],
                   get_player_position(player_name, conn, players))
           /\ UNCHANGED build_area

Return ==
    /\ op # "none"
    /\ op' = "none"
    /\ arg' = None
    /\ ret' = NoRet
    /\ issued' = <<>>
    /\ UNCHANGED <<build_area, probed, first, evals, managerVars>>

Next ==
    \/ GetBuildArea
    \/ SetBlock
    \/ SetBlocksInBox
    \/ PlaceStructure
    \/ GetBlock
    \/ GetBlocksInBox
    \/ TestConnection
    \/ GetServerVersion
    \/ GetPlayerPosition
    \/ Return

Spec == Init /\ [][Next]_vars

(***************************************************************************)
(* SpecConv: vec3i_to_tuple on drawn inputs.                               *)
(***************************************************************************)
Vecs ==
    {[kind |-> k, items |-> q] : k \in {"list", "tuple"}, q \in UNION {Seqs(n) : n \in 0..MaxLen}}
    \cup {[kind |-> "object", items |-> q] : q \in Seqs(3)}
    \cup {[kind |-> k, items |-> <<>>] : k \in {"str", "int", "NoneType"}}

InitConv ==
    /\ build_area = None
    /\ arg \in Vecs
    /\ op = "none"
    /\ ret = NoRet
    /\ issued = <<>>
    /\ probed = <<>>
    /\ first = NoRet
    /\ evals = 0
    /\ ManagerUnused

Vec3iToTuple ==
    /\ op = "none"
    /\ op' = "vec3i_to_tuple"
    /\ ret' = vec3i_to_tuple(arg)
    /\ UNCHANGED <<build_area, arg, issued, probed, first, evals, managerVars>>

NextConv == Vec3iToTuple

SpecConv == InitConv /\ [][NextConv]_vars

(***************************************************************************)
(* Claims about the containment predicates, checked under SpecGeom.        *)
(***************************************************************************)
Positive(b) == \A a \in Axes : b.size[a] > 0
LastBlock(b) == ivec3(b.offset[1] + b.size[1] - 1, b.offset[2] + b.size[2] - 1,
                      b.offset[3] + b.size[3] - 1)
InRegion(p, r) ==
    /\ r.offset[1] <= p[1] /\ p[1] < r.offset[1] + r.size[1]
    /\ r.offset[2] <= p[2] /\ p[2] < r.offset[2] + r.size[2]
    /\ r.offset[3] <= p[3] /\ p[3] < r.offset[3] + r.size[3]
PointsOf(b) ==
    {ivec3(x, y, z) : x \in b.offset[1]..(b.offset[1] + b.size[1] - 1),
                      y \in b.offset[2]..(b.offset[2] + b.size[2] - 1),
                      z \in b.offset[3]..(b.offset[3] + b.size[3] - 1)}

\* C1: check_build_area(p, r) is true iff r.offset.a <= p.a < r.offset.a + r.size.a
\* on each axis; for a region of positive size its minimum corner and its last
\* block are inside, and a point with a coordinate equal to r.offset.a + r.size.a
\* or to r.offset.a - 1 is outside.
C1_PointInRegion ==
    op = "check_build_area" =>
        LET p == PosOf(arg)
            r == build_area
        IN  /\ ret = Returned(InRegion(p, r))
            /\ (Positive(r) /\ p \in {r.offset, LastBlock(r)}) => ret = Returned(TRUE)
            /\ (\E a \in Axes : p[a] \in {r.offset[a] + r.size[a], r.offset[a] - 1})
                   => ret = Returned(FALSE)

C1_Witness ==
    /\ op = "check_build_area"
    /\ Positive(build_area)
    /\ build_area.size[1] = 2
    /\ PosOf(arg) = LastBlock(build_area)
    /\ ret = Returned(TRUE)

\* C2 as stated: check_box_in_build_area(b, r) is true iff both b.offset and the
\* inclusive maximum corner b.offset + b.size - (1,1,1) are in the region, and the
\* region's containment test is evaluated on exactly those two corners.
C2_BothCornersEvaluated ==
    op = "check_box_in_build_area" =>
        /\ ret = Returned(InRegion(arg.offset, build_area)
                          /\ InRegion(LastBlock(arg), build_area))
        /\ probed = <<arg.offset, LastBlock(arg)>>

\* C2 as amended: the result is true iff both corners are in the region; the
\* containment test is evaluated on the minimum corner, then on the inclusive
\* maximum corner only if the minimum corner is inside, and on no other point.
C2_CornersShortCircuit ==
    op = "check_box_in_build_area" =>
        /\ ret = Returned(InRegion(arg.offset, build_area)
                          /\ InRegion(LastBlock(arg), build_area))
        /\ probed = IF InRegion(arg.offset, build_area)
                    THEN <<arg.offset, LastBlock(arg)>>
                    ELSE <<arg.offset>>

C2_Witness ==
    /\ op = "check_box_in_build_area"
    /\ Positive(arg)
    /\ probed = <<arg.offset, LastBlock(arg)>>
    /\ arg.offset # LastBlock(arg)
    /\ ret = Returned(FALSE)

\* C3: for a box of positive size, check_box_in_build_area is true iff every
\* integer point of the box is in the region.
C3_WholeBoxInside ==
    (op = "check_box_in_build_area" /\ Positive(arg)) =>
        ret = Returned(\A p \in PointsOf(arg) : InRegion(p, build_area))

C3_Witness ==
    /\ op = "check_box_in_build_area"
    /\ Positive(arg)
    /\ Cardinality(PointsOf(arg)) > 2
    /\ ret = Returned(TRUE)

\* C5 as stated: check_box_in_build_area never returns true for a box whose size
\* is zero or negative on some axis.
C5_NonPositiveBoxRejected ==
    (op = "check_box_in_build_area" /\ ~Positive(arg)) => ret # Returned(TRUE)

\* C6: a box of positive size whose offset is in the region and whose exclusive
\* end equals the region's exclusive end on every axis is reported inside.
C6_TouchingUpperEdgeInside ==
    (/\ op = "check_box_in_build_area"
     /\ Positive(arg)
     /\ InRegion(arg.offset, build_area)
     /\ \A a \in Axes : arg.offset[a] + arg.size[a]
                            = build_area.offset[a] + build_area.size[a])
        => ret = Returned(TRUE)

C6_Witness ==
    /\ op = "check_box_in_build_area"
    /\ Positive(arg)
    /\ arg.offset # build_area.offset
    /\ InRegion(arg.offset, build_area)
    /\ \A a \in Axes : arg.offset[a] + arg.size[a]
                           = build_area.offset[a] + build_area.size[a]
    /\ ret = Returned(TRUE)

\* C7: a box of positive size that extends past the region on some axis
\* (starts before the region's offset or ends after its exclusive end) is
\* reported outside.
C7_ExtendingBoxOutside ==
    (/\ op = "check_box_in_build_area"
     /\ Positive(arg)
     /\ \E a \in Axes :
            \/ arg.offset[a] < build_area.offset[a]
            \/ arg.offset[a] + arg.size[a] > build_area.offset[a] + build_area.size[a])
        => ret = Returned(FALSE)

C7_Witness ==
    /\ op = "check_box_in_build_area"
    /\ Positive(arg)
    /\ Positive(build_area)
    /\ InRegion(arg.offset, build_area)
    /\ LastBlock(arg)[1] = build_area.offset[1] + build_area.size[1]
    /\ ret = Returned(FALSE)

\* C10: evaluating check_build_area or check_box_in_build_area again on the same
\* inputs, with other calls in between, returns what the first evaluation
\* returned, and every call leaves the point, the box and the region unchanged.
C10_Pure ==
    [][/\ arg' = arg
       /\ build_area' = build_area
       /\ (op' \in {"check_build_area", "check_box_in_build_area"} => ret' = first')]_vars

C10_Witness ==
    /\ op = "check_box_in_build_area"
    /\ evals = 2
    /\ ret = Returned(TRUE)
    /\ ret = first

(***************************************************************************)
(* Claims about the callers, checked under Spec.                           *)
(***************************************************************************)
\* the region [start, end) of a place call lies within the box
CallWithin(c, r) ==
    \A a \in Axes : r.offset[a] <= c.start[a] /\ c.end[a] <= r.offset[a] + r.size[a]

\* C4 as stated: set_block, set_blocks_in_box and place_structure never issue
\* the connection's place call for a target region that is not contained in
\* the build area.
C4_WritesWithinBuildArea ==
    (/\ op \in {"set_block", "set_blocks_in_box", "place_structure"}
     /\ build_area.kind = "Box"
     /\ Positive(build_area))
        => \A i \in 1..Len(issued) : CallWithin(issued[i], build_area)

\* C8 as stated: every Box returned by get_build_area has size > 0 on every axis.
C8_BuildAreaPositive ==
    (op = "get_build_area" /\ ret.val.kind = "Box") => Positive(ret.val)

(***************************************************************************)
(* Claims about the conversion, checked under SpecConv.                    *)
(***************************************************************************)
\* the integer a component stands for, where Python's int() has one
IsIntLike(c) == c.t \in {"int", "float", "numstr"}
IntOf(c) == IF c.t = "float"
            THEN (IF c.v >= 0 THEN c.v \div 10 ELSE -((-c.v) \div 10))
            ELSE c.v

\* C9 as stated: vec3i_to_tuple returns the three integer-converted components
\* for an object with x, y and z or a list or tuple of length 3, and raises
\* TypeError for every other input, a component that cannot be converted to
\* an integer included.
C9_ConvertsOrTypeError ==
    op = "vec3i_to_tuple" =>
        IF /\ arg.kind \in {"object", "list", "tuple"}
           /\ Len(arg.items) = 3
           /\ \A i \in 1..3 : IsIntLike(arg.items[i])
        THEN ret = Returned(<<IntOf(arg.items[1]), IntOf(arg.items[2]), IntOf(arg.items[3])>>)
        ELSE ret = Raised("TypeError")

(***************************************************************************)
(* Claims about the block, world and connection operations, checked under  *)
(* Spec.                                                                   *)
(***************************************************************************)
SizeProduct(b) == b.size[1] * b.size[2] * b.size[3]
SomeCallRaised == \E i \in 1..Len(issued) : issued[i].result # "ok"

\* C12: set_blocks_in_box returns False and makes no place_blocks call when the
\* block list's length differs from the box volume, or when blocks is neither
\* a string nor a list.
C12_BadBlocksRejected ==
    (/\ op = "set_blocks_in_box"
     /\ \/ arg.blocks.kind = "list" /\ Len(arg.blocks.val) # SizeProduct(arg.box)
        \/ arg.blocks.kind \notin {"str", "list"})
        => (ret = Returned(FALSE) /\ issued = <<>>)

C12_Witness ==
    /\ op = "set_blocks_in_box"
    /\ arg.blocks.kind = "list"
    /\ Len(arg.blocks.val) = 3
    /\ SizeProduct(arg.box) = 4
    /\ ret = Returned(FALSE)
    /\ issued = <<>>

\* C13: no BlockOperations method lets an exception reach its caller; when the
\* connection call raises (a connection error or any other exception) the
\* getters return None and the setters return False.
C13_NoExceptionEscapes ==
    /\ op \in {"get_block", "get_blocks_in_box"} =>
           (ret.kind = "return" /\ (SomeCallRaised => ret = Returned(None)))
    /\ op \in {"set_block", "set_blocks_in_box"} =>
           (ret.kind = "return" /\ (SomeCallRaised => ret = Returned(FALSE)))

C13_Witness ==
    /\ op = "get_block"
    /\ Len(issued) = 1
    /\ issued[1].result = "Exception"
    /\ issued[1].blocks.kind = "list"
    /\ ret = Returned(None)

\* C14: with a single block string (and the place call returning)
\* set_blocks_in_box issues exactly one place_blocks call, from box.offset to
\* the exclusive end box.offset + box.size, with box.volume copies of the
\* block, and returns True; with a list of length box.volume the same call is
\* issued with that list as given.
C14_FillsBox ==
    (/\ op = "set_blocks_in_box"
     /\ \/ arg.blocks.kind = "str"
        \/ arg.blocks.kind = "list" /\ Len(arg.blocks.val) = SizeProduct(arg.box))
        => /\ Len(issued) = 1
           /\ issued[1].call = "place_blocks"
           /\ issued[1].start = arg.box.offset
           /\ \A a \in Axes : issued[1].end[a] = arg.box.offset[a] + arg.box.size[a]
           /\ Len(issued[1].blocks) = SizeProduct(arg.box)
           /\ IF arg.blocks.kind = "str"
              THEN \A i \in 1..Len(issued[1].blocks) : issued[1].blocks[i] = arg.blocks.val[1]
              ELSE issued[1].blocks = arg.blocks.val
           /\ issued[1].result = "ok" => ret = Returned(TRUE)

C14_Witness ==
    /\ op = "set_blocks_in_box"
    /\ arg.blocks.kind = "str"
    /\ SizeProduct(arg.box) = 4
    /\ issued[1].result = "ok"
    /\ Len(issued[1].blocks) = 4
    /\ ret = Returned(TRUE)

\* C15: get_build_area maps a non-empty response to the Box with offset
\* (xFrom, yFrom, zFrom) and size (xTo-xFrom, yTo-yFrom, zTo-zFrom), the 'to'
\* corner being the exclusive end, and returns None for a None or empty
\* response.
C15_BuildAreaFromResponse ==
    (op = "get_build_area" /\ issued[1].result = "ok") =>
        IF arg.kind = "dict"
        THEN /\ ret.val.kind = "Box"
             /\ ret.val.offset = <<arg.xFrom, arg.yFrom, arg.zFrom>>
             /\ ret.val.size = <<arg.xTo - arg.xFrom, arg.yTo - arg.yFrom, arg.zTo - arg.zFrom>>
             /\ \A p \in {<<arg.xTo, arg.yFrom, arg.zFrom>>, <<arg.xFrom, arg.yTo, arg.zFrom>>,
                          <<arg.xFrom, arg.yFrom, arg.zTo>>} : ~InRegion(p, ret.val)
        ELSE ret = Returned(None)

C15_Witness ==
    /\ op = "get_build_area"
    /\ issued[1].result = "ok"
    /\ arg.kind = "dict"
    /\ arg.xFrom = 1 /\ arg.xTo = 2 /\ arg.yFrom = 0 /\ arg.yTo = 2
    /\ ret = Returned(Box(<<1, 0, arg.zFrom>>, <<1, 2, arg.zTo - arg.zFrom>>))

\* C16: test_connection and get_server_version never raise; test_connection
\* returns True exactly when the version request completes without an
\* exception; get_server_version returns the version on success and None on
\* any exception.
C16_ConnectionChecksNeverRaise ==
    /\ op = "test_connection" =>
           ret = Returned(issued[1].result = "ok")
    /\ op = "get_server_version" =>
           ret = IF issued[1].result = "ok"
                 THEN Returned(PyStr(issued[1].response))
                 ELSE Returned(None)

C16_Witness ==
    /\ op = "test_connection"
    /\ issued[1].result = "Exception"
    /\ ret = Returned(FALSE)

\* C17: get_player_position returns None when retrieving the players failed
\* or returned nothing, when the named player is absent, when the player's
\* data has no position, or when the position does not have exactly 3
\* components; otherwise it returns the position with each component
\* converted to an integer.
C17_PlayerPosition ==
    op = "get_player_position" =>
        LET players == arg.players
            failed == arg.conn # "ok" \/ players.kind # "dict" \/ players.names = {}
            absent == ~failed /\ arg.name \notin players.names
            pos_list == IF failed \/ absent THEN None ELSE PositionOf(players.data)
            noPosition == pos_list.kind # "list"
            wrongLength == ~noPosition /\ Len(pos_list.items) # 3
        IN  IF failed \/ absent \/ noPosition \/ wrongLength
            THEN ret = Returned(None)
            ELSE /\ ret.kind = "return"
                 /\ \A i \in Axes :
                        IsIntLike(pos_list.items[i]) => ret.val[i] = IntOf(pos_list.items[i])

(***************************************************************************)
(* api/models.py: the request models BoxModel and PlaceBlocksRequest.      *)
(* A field that failed its own validation is absent from `values` (None    *)
(* here); a validator sees only the fields declared before its own.        *)
(***************************************************************************)
ValidationError == Raised("ValidationError")
Missing(field) == field.kind = "None"
Field(v) == [kind |-> "field", val |-> v]

\* values.get(name) of a field that is not there yet
NotYetValidated == None

\* BoxModel.end_must_be_greater_than_start; a Position is always truthy
end_must_be_greater_than_start(end, values) ==
    LET start == values.start
    IN  IF /\ ~Missing(start)
           /\ \/ end.val[1] <= start.val[1]
              \/ end.val[2] <= start.val[2]
              \/ end.val[3] <= start.val[3]
        THEN Raised("ValueError")
        ELSE Returned(end)

\* BoxModel(start=..., end=...)
BoxModel(start, end) ==
    LET checked == IF Missing(end) THEN Raised("ValueError")
                   ELSE end_must_be_greater_than_start(end, [start |-> start])
    IN  IF Missing(start) \/ checked.kind = "raise"
        THEN ValidationError
        ELSE Returned([start |-> start.val, end |-> end.val])

\* the validator accepting an end equal to the start on some axis
end_pos_allows_equal(end_pos, values) ==
    LET start_pos == values.start_pos
    IN  IF /\ ~Missing(start_pos)
           /\ \/ end_pos.val[1] < start_pos.val[1]
              \/ end_pos.val[2] < start_pos.val[2]
              \/ end_pos.val[3] < start_pos.val[3]
        THEN Raised("ValueError")
        ELSE Returned(end_pos)

\* PlaceBlocksRequest.end_pos_must_be_greater; a 3-tuple is always truthy
end_pos_must_be_greater(end_pos, values) ==
    LET start_pos == values.start_pos
    IN  IF /\ ~Missing(start_pos)
           /\ \/ end_pos.val[1] <= start_pos.val[1]
              \/ end_pos.val[2] <= start_pos.val[2]
              \/ end_pos.val[3] <= start_pos.val[3]
        THEN Raised("ValueError")
        ELSE Returned(end_pos)

\* PlaceBlocksRequest.check_blocks_list
check_blocks_list(blocks, values) ==
    LET pattern == values.pattern
        start_pos == values.start_pos
        end_pos == values.end_pos
    IN  IF pattern = PyStr("list") /\ ~Missing(start_pos) /\ ~Missing(end_pos)
        THEN LET volume == (end_pos.val[1] - start_pos.val[1])
                           * (end_pos.val[2] - start_pos.val[2])
                           * (end_pos.val[3] - start_pos.val[3])
             IN  IF Len(blocks) # volume THEN Raised("ValueError") ELSE Returned(blocks)
        ELSE IF pattern = PyStr("fill") /\ blocks = <<>>
        THEN Raised("ValueError")
        ELSE Returned(blocks)

\* PlaceBlocksRequest(start_pos=..., end_pos=..., blocks=..., pattern=...):
\* the fields are validated in the order of their declaration, so `pattern`
\* is not among the values when `blocks` is checked
PlaceBlocksRequest(start_pos, end_pos, blocks, pattern) ==
    LET end_checked == IF Missing(end_pos) THEN Raised("ValueError")
                       ELSE end_pos_must_be_greater(end_pos, [start_pos |-> start_pos])
        end_value == IF end_checked.kind = "raise" THEN None ELSE end_pos
        blocks_checked == check_blocks_list(blocks, [start_pos |-> start_pos,
                                                     end_pos |-> end_value,
                                                     pattern |-> NotYetValidated])
    IN  IF Missing(start_pos) \/ end_checked.kind = "raise" \/ blocks_checked.kind = "raise"
        THEN ValidationError
        ELSE Returned([start_pos |-> start_pos.val, end_pos |-> end_pos.val,
                       blocks |-> blocks, pattern |-> pattern])

(***************************************************************************)
(* api/auth_router.py and api/template_router.py.  A handler yields the    *)
(* value it returns or the exception it raises, and the Supabase calls it  *)
(* made; the response is built from that.                                  *)
(***************************************************************************)
HTTP_200_OK == 200
HTTP_201_CREATED == 201
HTTP_400_BAD_REQUEST == 400
HTTP_401_UNAUTHORIZED == 401
HTTP_404_NOT_FOUND == 404
HTTP_409_CONFLICT == 409
HTTP_500_INTERNAL_SERVER_ERROR == 500
HTTP_503_SERVICE_UNAVAILABLE == 503

HTTPException(status_code, detail) ==
    [kind |-> "raise", exc |-> "HTTPException", status_code |-> status_code,
     detail |-> detail]
ErrorDetail(code, message) == [kind |-> "error", code |-> code, message |-> message]
Fails(e, calls) == [ret |-> e, issued |-> calls]

\* what the client receives: the returned value under the route's status
\* code, or the status code and detail of the HTTPException
Respond(outcome, success_status) ==
    IF outcome.ret.kind = "return"
    THEN [kind |-> "response", status_code |-> success_status, body |-> outcome.ret.val]
    ELSE IF outcome.ret.exc = "HTTPException"
    THEN [kind |-> "response", status_code |-> outcome.ret.status_code,
          body |-> [kind |-> "detail", detail |-> outcome.ret.detail]]
    ELSE [kind |-> "response", status_code |-> HTTP_500_INTERNAL_SERVER_ERROR,
          body |-> [kind |-> "detail",
                   detail |-> PyStr("An internal server error occurred.")]]

\* strings are sequences of characters
BearerPrefix == <<"B", "e", "a", "r", "e", "r", " ">>
\* a prefix test that compares the lengths only
startswith_length_only(str, prefix) == Len(str) >= Len(prefix)

startswith(str, prefix) ==
    Len(str) >= Len(prefix) /\ SubSeq(str, 1, Len(prefix)) = prefix
\* the index of the first " " of str from position i on, Len(str) + 1 if none
RECURSIVE NextSpace(_, _)
NextSpace(str, i) ==
    IF i > Len(str) THEN Len(str) + 1
    ELSE IF str[i] = " " THEN i
    ELSE NextSpace(str, i + 1)
\* str.split(" ")[1], for a str that holds a " "
SplitSecond(str) ==
    LET from == NextSpace(str, 1) + 1
    IN  SubSeq(str, from, NextSpace(str, from) - 1)

\* e.message of an AuthApiError: a sequence of words
Lower(word) ==
    CASE word = "Already" -> "already"
      [] word = "Password" -> "password"
      [] OTHER -> word
\* the message left as it is
lower_unchanged(message) == message

lower(message) == [i \in 1..Len(message) |-> Lower(message[i])]
\* needle in message
In(needle, message) ==
    \E i \in 1..(Len(message) - Len(needle) + 1) :
        SubSeq(message, i, i + Len(needle) - 1) = needle
AuthApiError(message) == [kind |-> "AuthApiError", message |-> message]

\* get_client: app.state.supabase_client, or 503 without it
get_client(supabase_client) ==
    IF supabase_client.kind = "None"
    THEN Fails(HTTPException(HTTP_503_SERVICE_UNAVAILABLE,
                             ErrorDetail("SUPABASE_CLIENT_UNAVAILABLE",
                                         <<"Supabase client not available.">>)), <<>>)
    ELSE Done(supabase_client, <<>>)

SignUpCall(res) == [call |-> "sign_up", result |-> res.kind]

\* an HTTPException raised inside the try block is an Exception, and is
\* caught by `except Exception`
register_user(supabase_client, res) ==
    LET supabase == get_client(supabase_client)
        calls == <<SignUpCall(res)>>
        unexpected == Fails(HTTPException(HTTP_500_INTERNAL_SERVER_ERROR,
                                ErrorDetail("INTERNAL_SERVER_ERROR",
                                    <<"An unexpected error occurred during registration.">>)),
                            calls)
    IN  IF supabase.ret.kind = "raise" THEN supabase
        ELSE IF res.kind = "AuthApiError"
        THEN LET status_code == IF In(<<"already", "registered">>, lower(res.message))
                                THEN HTTP_409_CONFLICT
                                ELSE HTTP_400_BAD_REQUEST
                 error_code == IF In(<<"already", "registered">>, lower(res.message))
                               THEN "EMAIL_EXISTS"
                               ELSE IF In(<<"weak", "password">>, lower(res.message))
                               THEN "WEAK_PASSWORD"
                               ELSE "REGISTRATION_FAILED"
             IN  Fails(HTTPException(status_code, ErrorDetail(error_code, res.message)),
                       calls)
        ELSE IF res.kind = "Exception" THEN unexpected
        ELSE IF res.user.kind = "None" \/ res.session.kind = "None" THEN unexpected
        ELSE Done([kind |-> "AuthResponse", user |-> res.user,
                   access_token |-> res.session.access_token], calls)

GetUserCall(token, res) == [call |-> "get_user", token |-> token, result |-> res.kind]

\* a dependency that lets a request without a bearer token through as an
\* anonymous user
get_current_user_optional(auth_header, supabase_client, user_response) ==
    LET supabase == get_client(supabase_client)
    IN  IF supabase.ret.kind = "raise" THEN supabase
        ELSE IF \/ auth_header.kind = "None"
                \/ auth_header.val = <<>>
                \/ ~startswith(auth_header.val, BearerPrefix)
        THEN Done([kind |-> "User", id |-> "anonymous", email |-> ""], <<>>)
        ELSE LET token == SplitSecond(auth_header.val)
                 calls == <<GetUserCall(token, user_response)>>
                 unexpected == Fails(HTTPException(HTTP_500_INTERNAL_SERVER_ERROR,
                                         PyStr("Could not validate credentials")), calls)
             IN  IF user_response.kind = "AuthApiError"
                 THEN Fails(HTTPException(HTTP_401_UNAUTHORIZED,
                                [kind |-> "f-string", text |-> "Authentication error: ",
                                 message |-> user_response.message]), calls)
                 ELSE IF user_response.kind = "Exception" THEN unexpected
                 ELSE IF user_response.user.kind = "None" THEN unexpected
                 ELSE Done(user_response.user, calls)

\* get_current_user: the dependency of every protected endpoint
get_current_user(auth_header, supabase_client, user_response) ==
    LET supabase == get_client(supabase_client)
    IN  IF supabase.ret.kind = "raise" THEN supabase
        ELSE IF \/ auth_header.kind = "None"
                \/ auth_header.val = <<>>
                \/ ~startswith(auth_header.val, BearerPrefix)
        THEN Fails(HTTPException(HTTP_401_UNAUTHORIZED, PyStr("Not authenticated")), <<>>)
        ELSE LET token == SplitSecond(auth_header.val)
                 calls == <<GetUserCall(token, user_response)>>
                 unexpected == Fails(HTTPException(HTTP_500_INTERNAL_SERVER_ERROR,
                                         PyStr("Could not validate credentials")), calls)
             IN  IF user_response.kind = "AuthApiError"
                 THEN Fails(HTTPException(HTTP_401_UNAUTHORIZED,
                                [kind |-> "f-string", text |-> "Authentication error: ",
                                 message |-> user_response.message]), calls)
                 ELSE IF user_response.kind = "Exception" THEN unexpected
                 ELSE IF user_response.user.kind = "None" THEN unexpected
                 ELSE Done(user_response.user, calls)

\* GET /v1/auth/user
read_users_me(current_user) ==
    Done([kind |-> "UserResponse", id |-> current_user.id, email |-> current_user.email],
         <<>>)

\* supabase_api/supabase_wrapper.py: the template queries of SupabaseManager
ManagerCall(name, template_id) == [call |-> name, template_id |-> template_id]
Truthy(data) ==
    CASE data.kind = "None" -> FALSE
      [] data.kind = "list" -> data.val # <<>>
      [] data.kind = "bool" -> data.val
      [] OTHER -> TRUE
get_template_by_id(template_id, response) ==
    IF response.kind = "Exception" THEN None
    ELSE IF Truthy(response.data) THEN response.data
    ELSE None
update_template_by_id(template_id, response) ==
    IF response.kind = "Exception" THEN None
    ELSE IF Truthy(response.data) THEN response.data.val[1]
    ELSE None
delete_template_by_id(template_id, response) ==
    IF response.kind = "Exception" THEN FALSE
    ELSE IF Truthy(response.data) THEN TRUE
    ELSE FALSE

\* answering 200 with whatever the manager handed back
get_template_unchecked(template_id, response) ==
    Done(get_template_by_id(template_id, response),
         <<ManagerCall("get_template_by_id", template_id)>>)

\* GET /v1/templates/{template_id}
get_template(template_id, response) ==
    LET template == get_template_by_id(template_id, response)
        calls == <<ManagerCall("get_template_by_id", template_id)>>
    IN  IF Truthy(template) THEN Done(template, calls)
        ELSE Fails(HTTPException(HTTP_404_NOT_FOUND, PyStr("Template not found")), calls)

\* PUT /v1/templates/{template_id}
update_template(template_id, response) ==
    LET updated_template == update_template_by_id(template_id, response)
        calls == <<ManagerCall("update_template_by_id", template_id)>>
    IN  IF Truthy(updated_template) THEN Done(updated_template, calls)
        ELSE Fails(HTTPException(HTTP_404_NOT_FOUND,
                                 PyStr("Template not found or failed to update")), calls)

\* DELETE /v1/templates/{template_id}
delete_template(template_id, response) ==
    LET success == delete_template_by_id(template_id, response)
        calls == <<ManagerCall("delete_template_by_id", template_id)>>
    IN  IF success
        THEN Done([kind |-> "message", message |-> "Template deleted successfully"], calls)
        ELSE Fails(HTTPException(HTTP_404_NOT_FOUND,
                                 PyStr("Template not found or failed to delete")), calls)

\* POST /v1/auth/login
SignInCall(res) == [call |-> "sign_in_with_password", result |-> res.kind]
login_user(supabase_client, res) ==
    LET supabase == get_client(supabase_client)
        calls == <<SignInCall(res)>>
        unexpected == Fails(HTTPException(HTTP_500_INTERNAL_SERVER_ERROR,
                                ErrorDetail("INTERNAL_SERVER_ERROR",
                                    <<"An unexpected error occurred during login.">>)),
                            calls)
    IN  IF supabase.ret.kind = "raise" THEN supabase
        ELSE IF res.kind = "AuthApiError"
        THEN Fails(HTTPException(HTTP_401_UNAUTHORIZED,
                                 ErrorDetail("INVALID_CREDENTIALS", res.message)), calls)
        ELSE IF res.kind = "Exception" THEN unexpected
        ELSE IF res.user.kind = "None" \/ res.session.kind = "None" THEN unexpected
        ELSE Done([kind |-> "AuthResponse", user |-> res.user,
                   access_token |-> res.session.access_token], calls)

\* api/status_router.py: GET /v1/gdpc-status.  The HTTPException raised
\* inside the try block is no GDPCConnectionError, `except Exception` has it
gdpc_status(conn_manager, conn, version) ==
    IF conn_manager.kind = "None"
    THEN Fails(HTTPException(HTTP_503_SERVICE_UNAVAILABLE,
                             ErrorDetail("GDPC_MANAGER_UNAVAILABLE",
                                         <<"GDPC connection manager not available.">>)),
               <<>>)
    ELSE LET got == get_server_version(conn, version)
         IN  IF got.ret.kind = "return" /\ got.ret.val.kind = "str"
             THEN Done([kind |-> "GDPCStatus", status |-> "connected",
                        minecraft_version |-> got.ret.val], got.issued)
             ELSE Fails(HTTPException(HTTP_500_INTERNAL_SERVER_ERROR,
                                      ErrorDetail("INTERNAL_SERVER_ERROR",
                                                  <<"An unexpected error occurred: ">>)),
                        got.issued)

\* the other endpoints of api/template_router.py; `result` is what the
\* SupabaseManager method hands back
UserCall(name, user_id, template_id) ==
    [call |-> name, user_id |-> user_id, template_id |-> template_id]
OrFailed(result, calls, failure) ==
    IF Truthy(result) THEN Done(result, calls)
    ELSE Fails(HTTPException(HTTP_500_INTERNAL_SERVER_ERROR, PyStr(failure)), calls)
\* user_id is current_user["id"] if isinstance(current_user, dict) else
\* current_user.id

get_templates(result) == Done(result, <<ManagerCall("get_templates", "")>>)
create_template(result) ==
    OrFailed(result, <<ManagerCall("create_template", "")>>, "Failed to create template")
get_template_versions(template_id, result) ==
    Done(result, <<ManagerCall("get_template_versions_by_template_id", template_id)>>)
create_template_version(template_id, result) ==
    OrFailed(result, <<ManagerCall("create_template_version", template_id)>>,
             "Failed to create template version")
activate_template_version(template_id, result) ==
    OrFailed(result, <<ManagerCall("activate_template_version", template_id)>>,
             "Failed to activate template version")
like_template(current_user, template_id, result) ==
    OrFailed(result, <<UserCall("add_favorite_template", current_user.id, template_id)>>,
             "Failed to add template to favorites")
unlike_template(current_user, template_id, result) ==
    LET calls == <<UserCall("remove_favorite_template", current_user.id, template_id)>>
    IN  IF Truthy(result)
        THEN Done([kind |-> "message",
                   message |-> "Template removed from favorites successfully"], calls)
        ELSE Fails(HTTPException(HTTP_500_INTERNAL_SERVER_ERROR,
                                 PyStr("Failed to remove template from favorites")), calls)
get_user_favorites(current_user, result) ==
    Done(result, <<UserCall("get_user_favorite_templates", current_user.id, "")>>)

(***************************************************************************)
(* api/storage_router.py.  A path is the sequence of its segments; the     *)
(* body of every handler is inside try ... except Exception, which turns   *)
(* any exception, an HTTPException of the body included, into its 500.     *)
(***************************************************************************)
UserDir(id) == [kind |-> "user_", name |-> id]
Name(name) == [kind |-> "name", name |-> name]
StorageCall(name, path) == [call |-> name, path |-> path]
\* user['id']: a dict has it, the User object of gotrue cannot be subscripted
Subscript(user) ==
    IF user.kind = "dict" THEN Returned(user.id) ELSE Raised("TypeError")
StorageFailed(outcome, code, message) ==
    IF outcome.ret.kind = "raise"
    THEN Fails(HTTPException(HTTP_500_INTERNAL_SERVER_ERROR, ErrorDetail(code, <<message>>)),
               outcome.issued)
    ELSE outcome
\* the storage manager's method returned or raised
Stored(result, calls, success) ==
    IF result.kind = "raise" THEN Fails(result, calls)
    ELSE IF Truthy(result.val) THEN Done(success, calls)
    ELSE Fails(HTTPException(HTTP_500_INTERNAL_SERVER_ERROR, PyStr("")), calls)

upload(name, noun, user, filename, result) ==
    LET id == Subscript(user)
        file_path == <<UserDir(id.val), filename>>
    IN  StorageFailed(IF id.kind = "raise" THEN Fails(id, <<>>)
                      ELSE Stored(result, <<StorageCall(name, file_path)>>,
                                  [kind |-> "message", data |-> result.val]),
                      "UPLOAD_FAILED", "Failed to upload " \o noun)

download(name, noun, user, file_path, result) ==
    LET calls == <<StorageCall(name, file_path)>>
    IN  StorageFailed(IF result.kind = "raise" THEN Fails(result, calls)
                      ELSE IF Truthy(result.val) THEN Done(result.val, calls)
                      ELSE Fails(HTTPException(HTTP_404_NOT_FOUND,
                                     ErrorDetail("NOT_FOUND", <<noun \o " not found">>)),
                                 calls),
                      "DOWNLOAD_FAILED", "Failed to download " \o noun)

\* f"user_{user['id']}/{path}" if path else f"user_{user['id']}"
list(name, noun, user, path, result) ==
    LET id == Subscript(user)
        list_path == IF path # <<>> THEN <<UserDir(id.val)>> \o path ELSE <<UserDir(id.val)>>
        calls == <<StorageCall(name, list_path)>>
    IN  StorageFailed(IF id.kind = "raise" THEN Fails(id, <<>>)
                      ELSE IF result.kind = "raise" THEN Fails(result, calls)
                      ELSE IF result.val.kind # "None"
                      THEN Done([kind |-> "files", files |-> result.val], calls)
                      ELSE Fails(HTTPException(HTTP_500_INTERNAL_SERVER_ERROR, PyStr("")),
                                 calls),
                      "LIST_FAILED", "Failed to list " \o noun)

delete(name, noun, user, file_paths, result) ==
    StorageFailed(Stored(result, <<StorageCall(name, file_paths)>>,
                         [kind |-> "message", data |-> result.val]),
                  "DELETE_FAILED", "Failed to delete " \o noun)

\* a protected endpoint: the dependency first, the handler only with a user
Protected(auth, handled) ==
    IF auth.ret.kind = "raise" THEN auth
    ELSE [ret |-> handled.ret, issued |-> auth.issued \o handled.issued]

(***************************************************************************)
(* SpecApi: the API layer, one request at a time.                          *)
(***************************************************************************)
Corners == {Field(p) : p \in Points} \cup {None}
Patterns == {PyStr("list"), PyStr("fill")}

NewBoxModel ==
    /\ op = "none"
    /\ \E start \in Corners, end \in Corners :
           /\ op' = "BoxModel"
           /\ arg' = [kind |-> "BoxModel", start |-> start, end |-> end]
           /\ ret' = BoxModel(start, end)
    /\ UNCHANGED <<build_area, issued, probed, first, evals, managerVars>>

NewPlaceBlocksRequest ==
    /\ op = "none"
    /\ \E start_pos \in Corners, end_pos \in Corners, n \in 0..MaxBlocks, pattern \in Patterns :
           /\ op' = "PlaceBlocksRequest"
           /\ arg' = [kind |-> "PlaceBlocksRequest", start |-> start_pos, end |-> end_pos,
                      blocks |-> ListOf(n), pattern |-> pattern]
           /\ ret' = PlaceBlocksRequest(start_pos, end_pos, ListOf(n), pattern)
    /\ UNCHANGED <<build_area, issued, probed, first, evals, managerVars>>

\* the requests drawn
MaxWords == 2     \* an error message has 0..MaxWords words
Words == {"already", "Already", "registered", "weak", "Password", "user"}
Messages == UNION {[1..n -> Words] : n \in 0..MaxWords}
User == [kind |-> "User", id |-> "test_user_id", email |-> "test@example.com"]
Session == [kind |-> "Session", access_token |-> "token"]
SupabaseClients == {None, [kind |-> "Client"]}
SignUpResults ==
    {[kind |-> "AuthResponse", user |-> u, session |-> t] :
        u \in {None, User}, t \in {None, Session}}
    \cup {AuthApiError(m) : m \in Messages}
    \cup {[kind |-> "Exception"]}
GetUserResults ==
    {[kind |-> "UserResponse", user |-> u] : u \in {None, User}}
    \cup {AuthApiError(<<"user">>), [kind |-> "Exception"]}
\* no header, "", "Basic x", "Bearer", "bearer t", "Bearer ", "Bearer t",
\* "Bearer t u"
AuthHeaders ==
    {None, PyStr(<<>>), PyStr(<<"B", "a", "s", "i", "c", " ", "x">>),
     PyStr(<<"B", "e", "a", "r", "e", "r">>),
     PyStr(<<"b", "e", "a", "r", "e", "r", " ", "t">>),
     PyStr(BearerPrefix), PyStr(BearerPrefix \o <<"t">>),
     PyStr(BearerPrefix \o <<"t", " ", "u">>)}
TemplateIds == {"3", "nonexistent_id"}
Template(template_id) == [kind |-> "dict", id |-> template_id]
SingleResponses ==
    {[kind |-> "APIResponse", data |-> d] : d \in {None, Template("3")}}
    \cup {[kind |-> "Exception"]}
RowsResponses ==
    {[kind |-> "APIResponse", data |-> d] :
        d \in {None, BlockList(<<>>), BlockList(<<Template("3")>>)}}
    \cup {[kind |-> "Exception"]}

Request(name, a, d, success_status) ==
    /\ op' = name
    /\ arg' = a
    /\ ret' = Respond(d, success_status)
    /\ issued' = d.issued
    /\ UNCHANGED <<build_area, probed, first, evals, managerVars>>

RegisterUser ==
    /\ op = "none"
    /\ \E supabase_client \in SupabaseClients, res \in SignUpResults :
           Request("register_user", [kind |-> "register", client |-> supabase_client,
                                     res |-> res],
                   register_user(supabase_client, res), HTTP_201_CREATED)

ReadUsersMe ==
    /\ op = "none"
    /\ \E auth_header \in AuthHeaders, supabase_client \in SupabaseClients,
          user_response \in GetUserResults :
           LET auth == get_current_user(auth_header, supabase_client, user_response)
           IN  Request("read_users_me",
                       [kind |-> "protected", header |-> auth_header,
                        client |-> supabase_client, user_response |-> user_response,
                        response |-> None],
                       Protected(auth, IF auth.ret.kind = "return"
                                       THEN read_users_me(auth.ret.val) ELSE auth),
                       HTTP_200_OK)

TemplateRequest(name, r, handled) ==
    Request(name,
            [kind |-> "protected", header |-> r.header, client |-> r.client,
             user_response |-> r.user_response, response |-> r.response,
             template_id |-> r.template_id],
            Protected(get_current_user(r.header, r.client, r.user_response), handled),
            HTTP_200_OK)

\* the requests on /v1/templates/{template_id}, with the manager's database
\* responses drawn from `responses`
TemplateRequests(responses) ==
    [header : AuthHeaders, client : SupabaseClients, user_response : GetUserResults,
     template_id : TemplateIds, response : responses]

GetTemplate ==
    /\ op = "none"
    /\ \E r \in TemplateRequests(SingleResponses) :
           TemplateRequest("get_template", r, get_template(r.template_id, r.response))

UpdateTemplate ==
    /\ op = "none"
    /\ \E r \in TemplateRequests(RowsResponses) :
           TemplateRequest("update_template", r,
                           update_template(r.template_id, r.response))

DeleteTemplate ==
    /\ op = "none"
    /\ \E r \in TemplateRequests(RowsResponses) :
           TemplateRequest("delete_template", r,
                           delete_template(r.template_id, r.response))

LoginUser ==
    /\ op = "none"
    /\ \E supabase_client \in SupabaseClients, res \in SignUpResults :
           Request("login_user", [kind |-> "login", client |-> supabase_client,
                                  res |-> res],
                   login_user(supabase_client, res), HTTP_200_OK)

ConnManagers == {None, [kind |-> "ConnectionManager"]}

GdpcStatus ==
    /\ op = "none"
    /\ \E conn_manager \in ConnManagers, conn \in ConnResults, version \in Versions :
           Request("gdpc_status", [kind |-> "gdpc_status", conn_manager |-> conn_manager,
                                   conn |-> conn, version |-> version],
                   gdpc_status(conn_manager, conn, version), HTTP_200_OK)

\* what the SupabaseManager methods hand back: a list of rows, or a row or None
ListResults == {BlockList(<<>>), BlockList(<<Template("3")>>)}
ItemResults == {None, Template("3")}
\* the user the dependency hands to the handler
CurrentUser(r) == get_current_user(r.header, r.client, r.user_response).ret.val

GetTemplates ==
    /\ op = "none"
    /\ \E r \in TemplateRequests(ListResults) :
           TemplateRequest("get_templates", r, get_templates(r.response))

CreateTemplate ==
    /\ op = "none"
    /\ \E r \in TemplateRequests(ItemResults) :
           TemplateRequest("create_template", r, create_template(r.response))

GetTemplateVersions ==
    /\ op = "none"
    /\ \E r \in TemplateRequests(ListResults) :
           TemplateRequest("get_template_versions", r,
                           get_template_versions(r.template_id, r.response))

CreateTemplateVersion ==
    /\ op = "none"
    /\ \E r \in TemplateRequests(ItemResults) :
           TemplateRequest("create_template_version", r,
                           create_template_version(r.template_id, r.response))

ActivateTemplateVersion ==
    /\ op = "none"
    /\ \E r \in TemplateRequests(ItemResults) :
           TemplateRequest("activate_template_version", r,
                           activate_template_version(r.template_id, r.response))

LikeTemplate ==
    /\ op = "none"
    /\ \E r \in TemplateRequests(ItemResults) :
           TemplateRequest("like_template", r,
                           like_template(CurrentUser(r), r.template_id, r.response))

UnlikeTemplate ==
    /\ op = "none"
    /\ \E r \in TemplateRequests({[kind |-> "bool", val |-> b] : b \in BOOLEAN}) :
           TemplateRequest("unlike_template", r,
                           unlike_template(CurrentUser(r), r.template_id, r.response))

GetUserFavorites ==
    /\ op = "none"
    /\ \E r \in TemplateRequests(ListResults) :
           TemplateRequest("get_user_favorites", r,
                           get_user_favorites(CurrentUser(r), r.response))

\* the requests on /storage: paths under the user's own directory, under
\* another user's, and outside any; the storage manager's method returns
\* None, an empty list or data, or raises
FilePaths ==
    {<<UserDir(User.id), Name("a.schem")>>, <<UserDir("other_user_id"), Name("a.schem")>>,
     <<Name("a.schem")>>}
StorageResults ==
    {Returned(None), Returned(BlockList(<<>>)), Returned([kind |-> "data"]),
     Raised("Exception")}
StorageRequests(paths) ==
    [header : AuthHeaders, client : SupabaseClients, user_response : GetUserResults,
     path : paths, response : StorageResults]
StorageRequest(name, r, handled) ==
    Request(name,
            [kind |-> "protected", header |-> r.header, client |-> r.client,
             user_response |-> r.user_response, response |-> r.response,
             path |-> r.path],
            Protected(get_current_user(r.header, r.client, r.user_response), handled),
            HTTP_200_OK)

UploadBlueprint ==
    /\ op = "none"
    /\ \E r \in StorageRequests({Name("a.schem")}) :
           StorageRequest("upload_blueprint", r,
                          upload("upload_blueprint", "blueprint", CurrentUser(r), r.path, r.response))

DownloadBlueprint ==
    /\ op = "none"
    /\ \E r \in StorageRequests(FilePaths) :
           StorageRequest("download_blueprint", r,
                          download("download_blueprint", "blueprint", CurrentUser(r), r.path, r.response))

ListBlueprints ==
    /\ op = "none"
    /\ \E r \in StorageRequests({<<>>, <<Name("castles")>>}) :
           StorageRequest("list_blueprints", r,
                          list("list_blueprints", "blueprints", CurrentUser(r), r.path, r.response))

DeleteBlueprints ==
    /\ op = "none"
    /\ \E r \in StorageRequests({<<p>> : p \in FilePaths}) :
           StorageRequest("delete_blueprints", r,
                          delete("delete_blueprints", "blueprints", CurrentUser(r), r.path, r.response))

UploadAsset ==
    /\ op = "none"
    /\ \E r \in StorageRequests({Name("a.schem")}) :
           StorageRequest("upload_asset", r,
                          upload("upload_asset", "asset", CurrentUser(r), r.path, r.response))

DownloadAsset ==
    /\ op = "none"
    /\ \E r \in StorageRequests(FilePaths) :
           StorageRequest("download_asset", r,
                          download("download_asset", "asset", CurrentUser(r), r.path, r.response))

ListAssets ==
    /\ op = "none"
    /\ \E r \in StorageRequests({<<>>, <<Name("castles")>>}) :
           StorageRequest("list_assets", r,
                          list("list_assets", "assets", CurrentUser(r), r.path, r.response))

DeleteAssets ==
    /\ op = "none"
    /\ \E r \in StorageRequests({<<p>> : p \in FilePaths}) :
           StorageRequest("delete_assets", r,
                          delete("delete_assets", "assets", CurrentUser(r), r.path, r.response))

NextApi ==
    \/ NewBoxModel
    \/ NewPlaceBlocksRequest
    \/ RegisterUser
    \/ LoginUser
    \/ GdpcStatus
    \/ ReadUsersMe
    \/ GetTemplate
    \/ UpdateTemplate
    \/ DeleteTemplate
    \/ GetTemplates
    \/ CreateTemplate
    \/ GetTemplateVersions
    \/ CreateTemplateVersion
    \/ ActivateTemplateVersion
    \/ LikeTemplate
    \/ UnlikeTemplate
    \/ GetUserFavorites
    \/ UploadBlueprint
    \/ DownloadBlueprint
    \/ ListBlueprints
    \/ DeleteBlueprints
    \/ UploadAsset
    \/ DownloadAsset
    \/ ListAssets
    \/ DeleteAssets
    \/ Return

SpecApi == Init /\ [][NextApi]_vars

\* C11: BoxModel and PlaceBlocksRequest accept a region only if its end is
\* strictly greater than its start on all three axes; a region that is not
\* fails construction with a validation error, so every accepted region has
\* size > 0 on each axis.
C11_EndStrictlyGreater ==
    op \in {"BoxModel", "PlaceBlocksRequest"} =>
        /\ ret.kind = "return" =>
               /\ ~Missing(arg.start) /\ ~Missing(arg.end)
               /\ \A a \in Axes : ret.val[IF op = "BoxModel" THEN "end" ELSE "end_pos"][a]
                                  > ret.val[IF op = "BoxModel" THEN "start" ELSE "start_pos"][a]
        /\ (/\ ~Missing(arg.start) /\ ~Missing(arg.end)
            /\ \E a \in Axes : arg.end.val[a] <= arg.start.val[a])
               => ret = ValidationError

\* a region whose end equals its start on one axis only is refused
C11_Witness ==
    /\ op = "PlaceBlocksRequest"
    /\ ~Missing(arg.start) /\ ~Missing(arg.end)
    /\ arg.end.val[1] > arg.start.val[1]
    /\ arg.end.val[2] > arg.start.val[2]
    /\ arg.end.val[3] = arg.start.val[3]
    /\ ret = ValidationError

IsBearer(auth_header) ==
    /\ auth_header.kind = "str"
    /\ Len(auth_header.val) >= Len(BearerPrefix)
    /\ \A i \in 1..Len(BearerPrefix) : auth_header.val[i] = BearerPrefix[i]
ProtectedOps == {"read_users_me", "get_template", "update_template", "delete_template"}
CallsNamed(name) == {i \in 1..Len(issued) : issued[i].call = name}

\* C18: with the Supabase client available, a request to a protected
\* endpoint without Authorization header, or with one that does not start
\* with "Bearer ", is answered 401 with detail "Not authenticated", and
\* supabase.auth.get_user is not called for it.
C18_NoBearerNotAuthenticated ==
    (/\ op \in ProtectedOps
     /\ arg.client.kind # "None"
     /\ ~IsBearer(arg.header))
        => /\ ret.status_code = HTTP_401_UNAUTHORIZED
           /\ ret.body = [kind |-> "detail", detail |-> PyStr("Not authenticated")]
           /\ CallsNamed("get_user") = {}

C18_Witness ==
    /\ op = "read_users_me"
    /\ arg.client.kind # "None"
    /\ arg.header = PyStr(<<"b", "e", "a", "r", "e", "r", " ", "t">>)
    /\ ret.status_code = HTTP_401_UNAUTHORIZED
    /\ issued = <<>>

Mentions(message, word1, word2) ==
    \E i \in 1..(Len(message) - 1) :
        Lower(message[i]) = word1 /\ Lower(message[i + 1]) = word2

\* C19: a registration that Supabase rejects with an AuthApiError whose
\* message contains "already registered", in any case, is answered 409 with
\* code EMAIL_EXISTS; every other AuthApiError is answered 400, with code
\* WEAK_PASSWORD if the message contains "weak password" (compared in lower
\* case as well) and REGISTRATION_FAILED otherwise.
C19_RegistrationErrors ==
    (/\ op = "register_user"
     /\ arg.client.kind # "None"
     /\ arg.res.kind = "AuthApiError")
        => LET message == arg.res.message
               expected ==
                   IF Mentions(message, "already", "registered")
                   THEN <<HTTP_409_CONFLICT, "EMAIL_EXISTS">>
                   ELSE IF Mentions(message, "weak", "password")
                   THEN <<HTTP_400_BAD_REQUEST, "WEAK_PASSWORD">>
                   ELSE <<HTTP_400_BAD_REQUEST, "REGISTRATION_FAILED">>
           IN  /\ ret.status_code = expected[1]
               /\ ret.body.detail.code = expected[2]

C19_Witness ==
    /\ op = "register_user"
    /\ arg.client.kind # "None"
    /\ arg.res = AuthApiError(<<"Already", "registered">>)
    /\ ret.status_code = HTTP_409_CONFLICT
    /\ ret.body.detail.code = "EMAIL_EXISTS"

Authenticated ==
    /\ arg.client.kind # "None"
    /\ IsBearer(arg.header)
    /\ arg.user_response.kind = "UserResponse"
    /\ arg.user_response.user.kind # "None"
NotFound == ret.status_code = HTTP_404_NOT_FOUND
Found(body) == ret.status_code = HTTP_200_OK /\ ret.body = body

\* C20: for an authenticated request, GET, PUT and DELETE on
\* /v1/templates/{template_id} answer 404 when the Supabase manager reports
\* no template (None for get and update, False for delete), and 200 with
\* the manager's result, or the deletion message, otherwise.
C20_TemplateFoundOrNot ==
    (op \in {"get_template", "update_template", "delete_template"} /\ Authenticated)
        => CASE op = "get_template" ->
                   LET template == get_template_by_id(arg.template_id, arg.response)
                   IN  IF template.kind = "None" THEN NotFound ELSE Found(template)
             [] op = "update_template" ->
                   LET template == update_template_by_id(arg.template_id, arg.response)
                   IN  IF template.kind = "None" THEN NotFound ELSE Found(template)
             [] op = "delete_template" ->
                   IF delete_template_by_id(arg.template_id, arg.response)
                   THEN Found([kind |-> "message",
                               message |-> "Template deleted successfully"])
                   ELSE NotFound

C20_Witness ==
    /\ op = "get_template"
    /\ Authenticated
    /\ arg.response.kind = "APIResponse"
    /\ arg.response.data.kind = "None"
    /\ NotFound
    /\ CallsNamed("get_template_by_id") # {}

\* C22: PlaceBlocksRequest validation rejects a request whose pattern is
\* 'list' and whose number of blocks differs from the region volume
\* (end_pos.x - start_pos.x) * (end_pos.y - start_pos.y) * (end_pos.z - start_pos.z);
\* no such request is accepted as a model instance.
C22_ListLengthChecked ==
    (/\ op = "PlaceBlocksRequest"
     /\ arg.pattern = PyStr("list")
     /\ ~Missing(arg.start) /\ ~Missing(arg.end)
     /\ Len(arg.blocks) # (arg.end.val[1] - arg.start.val[1])
                          * (arg.end.val[2] - arg.start.val[2])
                          * (arg.end.val[3] - arg.start.val[3]))
        => ret = ValidationError

\* C23: get_current_user answers 401 'Invalid token or user not found' when
\* supabase.auth.get_user returns a response whose user is None, and 401 when
\* get_user raises AuthApiError; 500 'Could not validate credentials' is
\* answered only for other exceptions of the token lookup.
C23_InvalidTokenUnauthorized ==
    (/\ op \in ProtectedOps
     /\ arg.client.kind # "None"
     /\ IsBearer(arg.header))
        => /\ (arg.user_response.kind = "UserResponse"
               /\ arg.user_response.user.kind = "None")
                  => /\ ret.status_code = HTTP_401_UNAUTHORIZED
                     /\ ret.body = [kind |-> "detail",
                                    detail |-> PyStr("Invalid token or user not found")]
           /\ arg.user_response.kind = "AuthApiError"
                  => ret.status_code = HTTP_401_UNAUTHORIZED
           /\ ret.status_code = HTTP_500_INTERNAL_SERVER_ERROR
                  => arg.user_response.kind = "Exception"

\* C30: the two predicates agree on single blocks: for every point p and
\* every region r, check_build_area(p, r) equals
\* check_box_in_build_area(Box(offset=p, size=(1,1,1)), r).
C30_SingleBlockAgrees ==
    /\ (op = "check_build_area" /\ ret.kind = "return")
           => ret = check_box_in_build_area(Box(PosOf(arg), ivec3(1, 1, 1)), build_area).ret
    /\ (op = "check_box_in_build_area" /\ arg.size = ivec3(1, 1, 1))
           => ret = check_build_area([kind |-> "tuple", items |-> IntItems(arg.offset)],
                                     build_area).ret

\* the last block of a region, which lies inside it
C30_Witness ==
    /\ op = "check_build_area"
    /\ Positive(build_area)
    /\ PosOf(arg) = LastBlock(build_area)
    /\ ret = Returned(TRUE)

(***************************************************************************)
(* supabase_api/supabase_wrapper.py: SupabaseManager.init_clients,          *)
(* get_client, get_admin_client.  A manager is the record of its two       *)
(* attributes and of the instances made so far; a method yields the        *)
(* manager it leaves and what it returned or raised.                       *)
(***************************************************************************)
MaxCreated == 10    \* create_client is called at most MaxCreated times

Manager(c, a, n) == [client |-> c, admin_client |-> a, created |-> n]
Left(m, r) == [manager |-> m, ret |-> r]

\* create_client(supabase_url, key): the next instance
create_client(n, key) == [kind |-> "Client", id |-> n + 1, key |-> key]

\* made, made_admin: whether the create_client calls return (or raise)
init_clients(m, settings, made, made_admin) ==
    IF m.client.kind # "None" /\ m.admin_client.kind # "None"
    THEN Left(m, Returned(None))
    ELSE IF ~settings.supabase_key
    THEN Left(m, Raised("Exception"))
    ELSE IF ~made
    THEN Left(m, Raised("Exception"))
    ELSE LET with_client == Manager(create_client(m.created, "anon"), m.admin_client,
                                    m.created + 1)
         IN  IF ~settings.supabase_service_key \/ ~made_admin
             THEN Left([with_client EXCEPT !.admin_client = None], Returned(None))
             ELSE Left(Manager(with_client.client,
                               create_client(with_client.created, "service"),
                               with_client.created + 1),
                       Returned(None))

manager_get_client(m, settings, made, made_admin) ==
    LET init == IF m.client.kind = "None"
                THEN init_clients(m, settings, made, made_admin)
                ELSE Left(m, Returned(None))
    IN  IF init.ret.kind = "raise" THEN init
        ELSE IF init.manager.client.kind = "None"
        THEN Left(init.manager, Raised("Exception"))
        ELSE Left(init.manager, Returned(init.manager.client))

get_admin_client(m, settings, made, made_admin) ==
    LET init == IF m.admin_client.kind = "None"
                THEN init_clients(m, settings, made, made_admin)
                ELSE Left(m, Returned(None))
    IN  IF init.ret.kind = "raise" THEN init
        ELSE IF init.manager.admin_client.kind = "None"
        THEN Left(init.manager, Raised("Exception"))
        ELSE Left(init.manager, Returned(init.manager.admin_client))

(***************************************************************************)
(* SpecManager: get_client and get_admin_client called on one manager, in  *)
(* any order, under settings read once from the environment.               *)
(***************************************************************************)
Settings == [supabase_key : BOOLEAN, supabase_service_key : BOOLEAN]

InitManager ==
    /\ build_area = None
    /\ arg = None
    /\ op = "none"
    /\ ret = NoRet
    /\ issued = <<>>
    /\ probed = <<>>
    /\ first = NoRet
    /\ evals = 0
    /\ env \in Settings
    /\ client = None
    /\ admin_client = None
    /\ created = 0
    /\ is_active = <<>>
    /\ pc = <<>>

\* first keeps what the first get_client call that returned has returned
ManagerCalled(name, left) ==
    /\ op' = name
    /\ ret' = left.ret
    /\ client' = left.manager.client
    /\ admin_client' = left.manager.admin_client
    /\ created' = left.manager.created
    /\ first' = IF name = "get_client" /\ first.kind = "pending" /\ left.ret.kind = "return"
                THEN left.ret ELSE first
    /\ UNCHANGED <<build_area, arg, issued, probed, evals, env, is_active, pc>>

GetClient ==
    /\ created + 2 <= MaxCreated
    /\ \E made \in BOOLEAN, made_admin \in BOOLEAN :
           ManagerCalled("get_client",
                         manager_get_client(Manager(client, admin_client, created), env,
                                            made, made_admin))

GetAdminClient ==
    /\ created + 2 <= MaxCreated
    /\ \E made \in BOOLEAN, made_admin \in BOOLEAN :
           ManagerCalled("get_admin_client",
                         get_admin_client(Manager(client, admin_client, created), env,
                                          made, made_admin))

NextManager == GetClient \/ GetAdminClient

SpecManager == InitManager /\ [][NextManager]_vars

\* C29: once get_client has returned a client, every later get_client call
\* on the same manager returns that same instance and the regular client is
\* not created again, whatever get_client and get_admin_client calls come
\* in between, also when the service key is missing and get_admin_client
\* fails.
C29_ClientKept ==
    first.kind = "return" =>
        /\ client = first.val
        /\ op = "get_client" => ret = first

(***************************************************************************)
(* supabase_api/supabase_wrapper.py: SupabaseManager.activate_template_    *)
(* version.  The two updates are separate requests to the database, and    *)
(* the calls of concurrent requests interleave between them.               *)
(***************************************************************************)
MaxVersions == 3    \* the template has versions 1..MaxVersions
MaxCalls == 2       \* at most MaxCalls activate calls are in progress at a time

VersionIds == 1..MaxVersions
Calls == 1..MaxCalls
Idle == [step |-> "idle", version_id |-> 0]
At(step, version_id) == [step |-> step, version_id |-> version_id]

\* update({'is_active': False}).eq('template_id', template_id).neq('id', version_id)
deactivate_others(rows, version_id) ==
    [v \in DOMAIN rows |-> IF v # version_id THEN FALSE ELSE rows[v]]

\* update({'is_active': True}).eq('id', version_id)
activate(rows, version_id) == [rows EXCEPT ![version_id] = TRUE]

InitActivate ==
    /\ build_area = None
    /\ arg = None
    /\ op = "none"
    /\ ret = NoRet
    /\ issued = <<>>
    /\ probed = <<>>
    /\ first = NoRet
    /\ evals = 0
    /\ env = None
    /\ client = None
    /\ admin_client = None
    /\ created = 0
    /\ is_active \in {rows \in [VersionIds -> BOOLEAN] :
                        Cardinality({v \in VersionIds : rows[v]}) <= 1}
    /\ pc = [c \in Calls |-> Idle]

Step(c, next, rows, name, r) ==
    /\ pc' = [pc EXCEPT ![c] = next]
    /\ is_active' = rows
    /\ op' = name
    /\ arg' = At("call", c)
    /\ ret' = r
    /\ UNCHANGED <<build_area, issued, probed, first, evals, env, client, admin_client,
                   created>>

\* the call begins; its first update is still to be made
StartActivate(c) ==
    /\ pc[c].step = "idle"
    /\ \E version_id \in VersionIds :
           Step(c, At("deactivate", version_id), is_active, "activate_template_version",
                NoRet)

Deactivate(c) ==
    /\ pc[c].step = "deactivate"
    /\ Step(c, At("activate", pc[c].version_id),
            deactivate_others(is_active, pc[c].version_id), "deactivate", NoRet)

\* the first update raises: except Exception, return None
DeactivateFails(c) ==
    /\ pc[c].step = "deactivate"
    /\ Step(c, Idle, is_active, "return", Returned(None))

Activate(c) ==
    /\ pc[c].step = "activate"
    /\ Step(c, Idle, activate(is_active, pc[c].version_id), "return",
            Returned(At("version", pc[c].version_id)))

\* the second update raises: except Exception, return None
ActivateFails(c) ==
    /\ pc[c].step = "activate"
    /\ Step(c, Idle, is_active, "return", Returned(None))

NextActivate ==
    \E c \in Calls :
        \/ StartActivate(c)
        \/ Deactivate(c)
        \/ DeactivateFails(c)
        \/ Activate(c)
        \/ ActivateFails(c)

SpecActivate == InitActivate /\ [][NextActivate]_vars

\* C21: whenever no activate_template_version call is in progress, the
\* template has at most one active version, for any number of activate
\* calls on it and any interleaving of their database steps (each
\* version_id belongs to the template, at most one version active at first).
C21_AtMostOneActive ==
    (\A c \in Calls : pc[c].step = "idle")
        => Cardinality({v \in VersionIds : is_active[v]}) <= 1

\* C24: /gdpc-status answers 503 with code GDPC_MANAGER_UNAVAILABLE when no
\* connection manager is set in the application state, 503 with code
\* GDPC_UNEXPECTED_RESPONSE when get_server_version returns None, and status
\* 'connected' with the version when a version is returned.
C24_GdpcStatus ==
    op = "gdpc_status" =>
        IF arg.conn_manager.kind = "None"
        THEN /\ ret.status_code = HTTP_503_SERVICE_UNAVAILABLE
             /\ ret.body.detail.code = "GDPC_MANAGER_UNAVAILABLE"
        ELSE IF get_server_version(arg.conn, arg.version).ret = Returned(None)
        THEN /\ ret.status_code = HTTP_503_SERVICE_UNAVAILABLE
             /\ ret.body.detail.code = "GDPC_UNEXPECTED_RESPONSE"
        ELSE /\ ret.status_code = HTTP_200_OK
             /\ ret.body.status = "connected"
             /\ ret.body.minecraft_version = PyStr(arg.version)

\* C26: every failed login attempt, Supabase raising AuthApiError (code
\* INVALID_CREDENTIALS) or returning a response with a null user or session
\* (code LOGIN_FAILED), is answered 401 and returns no access token.
C26_FailedLoginUnauthorized ==
    (/\ op = "login_user"
     /\ arg.client.kind # "None"
     /\ \/ arg.res.kind = "AuthApiError"
        \/ arg.res.kind = "AuthResponse"
           /\ (arg.res.user.kind = "None" \/ arg.res.session.kind = "None"))
        => /\ ret.status_code = HTTP_401_UNAUTHORIZED
           /\ ret.body.kind = "detail"
           /\ ret.body.detail.code = IF arg.res.kind = "AuthApiError"
                                     THEN "INVALID_CREDENTIALS" ELSE "LOGIN_FAILED"

(***************************************************************************)
(* The storage endpoints and the dependency of the protected endpoints.    *)
(***************************************************************************)
TemplateOps ==
    {"get_templates", "create_template", "get_template", "update_template",
     "delete_template", "get_template_versions", "create_template_version",
     "activate_template_version", "like_template", "unlike_template",
     "get_user_favorites"}
DownloadOps == {"download_blueprint", "download_asset"}
DeleteOps == {"delete_blueprints", "delete_assets"}
StorageOps ==
    {"upload_blueprint", "list_blueprints", "upload_asset", "list_assets"}
    \cup DownloadOps \cup DeleteOps
NoContent == arg.response.kind = "return" /\ ~Truthy(arg.response.val)
Answered(status_code, code) ==
    /\ ret.status_code = status_code
    /\ ret.body.detail.kind = "error"
    /\ ret.body.detail.code = code

\* C25: an authenticated download of a blueprint or an asset for which the
\* storage manager returns no content is answered 404 with code NOT_FOUND,
\* and a 500 with code DOWNLOAD_FAILED is answered only when the storage
\* manager raised.
C25_DownloadNotFound ==
    (op \in DownloadOps /\ Authenticated) =>
        /\ NoContent => Answered(HTTP_404_NOT_FOUND, "NOT_FOUND")
        /\ (ret.status_code = HTTP_500_INTERNAL_SERVER_ERROR) =>
               arg.response.kind = "raise"

\* the calls of the request that reached a manager: all but the
\* dependency's own supabase.auth.get_user
ManagerCalls == {i \in 1..Len(issued) : issued[i].call # "get_user"}

\* C27: a request to a template or storage endpoint that is not
\* authenticated (no client, no bearer token, or a token supabase does not
\* resolve to a user) invokes no SupabaseManager and no
\* SupabaseStorageManager operation.
C27_RejectedRunsNoHandler ==
    (op \in TemplateOps \cup StorageOps /\ ~Authenticated) => ManagerCalls = {}
\* a delete of another user's blueprint with a token supabase rejects: only
\* get_user was called
C27_Witness ==
    /\ op = "delete_blueprints"
    /\ arg.client.kind # "None"
    /\ IsBearer(arg.header)
    /\ arg.user_response.kind = "AuthApiError"
    /\ CallsNamed("get_user") # {}
    /\ ManagerCalls = {}
    /\ ret.status_code = HTTP_401_UNAUTHORIZED

\* the path starts with the directory of the requesting user
OwnPath(path) == Len(path) >= 1 /\ path[1] = UserDir(arg.user_response.user.id)
\* C28: for an authenticated request to a storage endpoint, every path
\* handed to the storage manager starts with the requesting user's
\* user_{id} directory.
C28_OwnPrefixOnly ==
    (op \in StorageOps /\ Authenticated) =>
        \A i \in ManagerCalls :
            IF issued[i].call \in DeleteOps
            THEN \A j \in 1..Len(issued[i].path) : OwnPath(issued[i].path[j])
            ELSE OwnPath(issued[i].path)

====
